---- MODULE Spec2Model ----
(***************************************************************************)
(* Spoology: the remaining-filament calculator of src/App (the App         *)
(* component; its source is src/App/vite.config.ts lines 15-991).          *)
(*                                                                         *)
(* Conventions of the translation                                          *)
(*   - a JS string is a sequence of one-character strings;                 *)
(*   - a JS number is an exact rational <<num, den>> in lowest terms with  *)
(*     den > 0; NaN is <<0, 0>>;                                           *)
(*   - null is the empty sequence; a non-null object or index is the       *)
(*     one-element sequence holding it; a non-null number is the rational; *)
(*   - a spool is a record holding exactly the keys its JSON file holds,   *)
(*     so an absent optional field is a key missing from DOMAIN.           *)
(***************************************************************************)
EXTENDS Integers, Sequences, FiniteSets, TLC

VARIABLES
    \* ---- loadSpools() in flight (src/App/vite.config.ts:59-75, 161-163)
    fileIdx,        \* position of the for-loop over SPOOL_FILES (1-based)
    results,        \* the local array `results`
    loaded,         \* the promise has resolved and setSpools has run
    \* ---- React state of App (src/App/vite.config.ts:132-139)
    spools, brand, spoolIndex, measuredWeight, spoolSize, includeCore,
    brandFilter,
    \* ---- the passive effect of lines 184-188 is scheduled and has not run
    effectPending,
    \* ---- one call of the estimator as a pure function
    estArgs, estOut,
    \* ---- what each fetch of loadSpools answered so far: <<json>> or Null
    fetchLog,
    \* ---- one call each of groupByBrand and fuzzyBrandFilter
    fnArgs, fnOut,
    \* ---- React state of the Scan tab (src/App/vite.config.ts:141-144) and
    \*      the analyzeSpoolImage requests awaiting their response
    scanFile, scanResult, scanStatus, scanRequests,
    \* ---- React state of the Add Spool tab (lines 148-158) and the
    \*      submitSpoolContribution requests awaiting their response
    contribBrand, contribType, contribImageFile, contribStatus, contribResult,
    contribRequests,
    \* ---- the event the last step of the two tabs handled
    lastEvent

scanVars == <<scanFile, scanResult, scanStatus, scanRequests>>

contribVars == <<contribBrand, contribType, contribImageFile, contribStatus,
                 contribResult, contribRequests>>

backendVars == <<scanVars, contribVars, lastEvent>>

fnVars == <<fnArgs, fnOut>>

vars == <<fileIdx, results, loaded, spools, brand, spoolIndex, measuredWeight,
          spoolSize, includeCore, effectPending, estArgs, estOut, fetchLog,
          brandFilter, fnVars, backendVars>>

appVars == <<fileIdx, results, loaded, spools, brand, spoolIndex,
             measuredWeight, spoolSize, includeCore, effectPending, fetchLog,
             brandFilter>>

estVars == <<estArgs, estOut>>

(***************************************************************************)
(* Exact rational arithmetic standing for JS numbers                       *)
(***************************************************************************)
Abs(n) == IF n < 0 THEN -n ELSE n

RECURSIVE GCD(_, _)
GCD(a, b) == IF b = 0 THEN a ELSE GCD(b, a % b)

Rat(n, d) ==
    LET g == GCD(Abs(n), Abs(d))
        s == IF d < 0 THEN -1 ELSE 1
    IN  <<(s * n) \div g, (s * d) \div g>>

NaN == <<0, 0>>
Num(n) == <<n, 1>>
Zero == <<0, 1>>

IsNaN(x) == x[2] = 0

RAdd(a, b) == Rat(a[1] * b[2] + b[1] * a[2], a[2] * b[2])
RSub(a, b) == Rat(a[1] * b[2] - b[1] * a[2], a[2] * b[2])
RMul(a, b) ==
    LET x == Rat(a[1], b[2])
        y == Rat(b[1], a[2])
    IN  Rat(x[1] * y[1], x[2] * y[2])
RDiv(a, b) == RMul(a, Rat(b[2], b[1]))

\* comparisons: every comparison with NaN is false, as in JS
RGt(a, b) == ~IsNaN(a) /\ ~IsNaN(b) /\ a[1] * b[2] > b[1] * a[2]
RLe(a, b) == ~IsNaN(a) /\ ~IsNaN(b) /\ a[1] * b[2] <= b[1] * a[2]
RGe(a, b) == RLe(b, a)

MathMax(a, b) == IF RGt(b, a) THEN b ELSE a
MathMin(a, b) == IF RGt(a, b) THEN b ELSE a

\* JS truthiness of a number: false for 0, -0 and NaN
TruthyNum(x) == ~IsNaN(x) /\ x[1] # 0

Null == <<>>

(***************************************************************************)
(* parseFloat and parseInt on the strings the model uses                   *)
(***************************************************************************)
Digits == {"0", "1", "2", "3", "4", "5", "6", "7", "8", "9"}

DigitVal(c) ==
    CASE c = "0" -> 0 [] c = "1" -> 1 [] c = "2" -> 2 [] c = "3" -> 3
      [] c = "4" -> 4 [] c = "5" -> 5 [] c = "6" -> 6 [] c = "7" -> 7
      [] c = "8" -> 8 [] c = "9" -> 9

IsSpace(c) == c = " "

\* first position >= i of t that holds no white space (Len(t)+1 if none)
RECURSIVE SkipSpaces(_, _)
SkipSpaces(t, i) ==
    IF i <= Len(t) /\ IsSpace(t[i]) THEN SkipSpaces(t, i + 1) ELSE i

\* number of consecutive digits of t starting at position i
RECURSIVE DigitRun(_, _)
DigitRun(t, i) ==
    IF i <= Len(t) /\ t[i] \in Digits THEN 1 + DigitRun(t, i + 1) ELSE 0

\* value of the n digits of t starting at i, read as a decimal integer
RECURSIVE DigitsValue(_, _, _)
DigitsValue(t, i, n) ==
    IF n = 0 THEN 0
    ELSE 10 * DigitsValue(t, i, n - 1) + DigitVal(t[i + n - 1])

RECURSIVE Pow10(_)
Pow10(n) == IF n = 0 THEN 1 ELSE 10 * Pow10(n - 1)

\* parseFloat(t): leading white space, an optional sign, the longest prefix
\* of the form digits[.digits] or .digits; NaN when there is none.
\* (Exponents and "Infinity" need characters the model's strings never hold.)
ParseFloat(t) ==
    LET p    == SkipSpaces(t, 1)
        neg  == p <= Len(t) /\ t[p] = "-"
        q    == IF p <= Len(t) /\ t[p] \in {"-", "+"} THEN p + 1 ELSE p
        n1   == DigitRun(t, q)
        dot  == q + n1 <= Len(t) /\ t[q + n1] = "."
        n2   == IF dot THEN DigitRun(t, q + n1 + 1) ELSE 0
        mag  == RAdd(Num(DigitsValue(t, q, n1)),
                     Rat(DigitsValue(t, q + n1 + 1, n2), Pow10(n2)))
    IN  IF n1 = 0 /\ n2 = 0 THEN NaN
        ELSE IF neg THEN RSub(Zero, mag) ELSE mag

\* parseInt(t, 10): leading white space, an optional sign, the longest run
\* of digits; NaN (here Null) when there is none.
ParseInt(t) ==
    LET p    == SkipSpaces(t, 1)
        neg  == p <= Len(t) /\ t[p] = "-"
        q    == IF p <= Len(t) /\ t[p] \in {"-", "+"} THEN p + 1 ELSE p
        n1   == DigitRun(t, q)
    IN  IF n1 = 0 THEN Null
        ELSE <<(IF neg THEN -1 ELSE 1) * DigitsValue(t, q, n1)>>

\* String(n) for an integer n >= 0
RECURSIVE NumToString(_)
NumToString(n) ==
    LET d == <<"0", "1", "2", "3", "4", "5", "6", "7", "8", "9">>
    IN  IF n < 10 THEN <<d[n + 1]>> ELSE NumToString(n \div 10) \o <<d[(n % 10) + 1]>>

\* String.prototype.toLowerCase on the letters the model uses
UpperCase == <<"A", "B", "C", "D", "E", "F", "G", "H", "I", "J", "K", "L", "M",
               "N", "O", "P", "Q", "R", "S", "T", "U", "V", "W", "X", "Y", "Z">>
LowerCase == <<"a", "b", "c", "d", "e", "f", "g", "h", "i", "j", "k", "l", "m",
               "n", "o", "p", "q", "r", "s", "t", "u", "v", "w", "x", "y", "z">>

LowerChar(c) ==
    IF \E i \in 1..Len(UpperCase) : UpperCase[i] = c
    THEN LowerCase[CHOOSE i \in 1..Len(UpperCase) : UpperCase[i] = c]
    ELSE c

toLowerCase(t) == [i \in 1..Len(t) |-> LowerChar(t[i])]

\* t.startsWith(prefix)
startsWith(t, prefix) ==
    Len(prefix) <= Len(t) /\ SubSeq(t, 1, Len(prefix)) = prefix

(***************************************************************************)
(* withBaseUrl (lines 28-38)                                               *)
(***************************************************************************)
\* import.meta.env.BASE_URL: the `base` of the production build (line 6)
BASE_URL == <<"/", "S", "p", "o", "o", "l", "o", "g", "y", "/">>

\* /^(https?:)?\/\//i.test(path)
IsAbsoluteUrl(path) ==
    LET l == toLowerCase(path)
    IN  \/ startsWith(l, <<"/", "/">>)
        \/ startsWith(l, <<"h", "t", "t", "p", ":", "/", "/">>)
        \/ startsWith(l, <<"h", "t", "t", "p", "s", ":", "/", "/">>)

\* withBaseUrl(path); an absent path is Null and the result undefined is Null
withBaseUrl(path) ==
    IF path = Null \/ path = <<>> THEN Null
    ELSE IF \/ IsAbsoluteUrl(path)
            \/ startsWith(path, <<"d", "a", "t", "a", ":">>)
            \/ startsWith(path, <<"b", "l", "o", "b", ":">>)
         THEN path
    ELSE LET cleaned == IF startsWith(path, <<"/">>)
                        THEN SubSeq(path, 2, Len(path)) ELSE path
         IN  BASE_URL \o cleaned

(***************************************************************************)
(* The catalog: expandBrands, groupByBrand                                 *)
(***************************************************************************)
\* position of the first "/" of t at or after i (Len(t)+1 if none)
RECURSIVE FindSlash(_, _)
FindSlash(t, i) ==
    IF i > Len(t) \/ t[i] = "/" THEN i ELSE FindSlash(t, i + 1)

\* t.split("/")
RECURSIVE Split(_)
Split(t) ==
    LET k == FindSlash(t, 1)
    IN  IF k > Len(t) THEN <<t>>
        ELSE <<SubSeq(t, 1, k - 1)>> \o Split(SubSeq(t, k + 1, Len(t)))

\* last position <= i of t that holds no white space (0 if none)
RECURSIVE SkipSpacesBack(_, _)
SkipSpacesBack(t, i) ==
    IF i >= 1 /\ IsSpace(t[i]) THEN SkipSpacesBack(t, i - 1) ELSE i

\* t.trim()
Trim(t) == SubSeq(t, SkipSpaces(t, 1), SkipSpacesBack(t, Len(t)))

\* parts.map((b) => b.trim())
TrimAll(parts) == [i \in 1..Len(parts) |-> Trim(parts[i])]

NonEmpty(b) == Len(b) > 0

\* expandBrands(brand); an absent brand is passed as Null, and `!brand`
\* is true for it and for the empty string alike
expandBrands(b) ==
    IF b = Null THEN <<>>
    ELSE SelectSeq(TrimAll(Split(b)), NonEmpty)

\* s.brand, undefined (Null) when the JSON holds no brand
BrandOf(s) == IF "brand" \in DOMAIN s THEN s.brand ELSE Null

\* `if (!acc[key]) acc[key] = []; acc[key].push(s)`
AccPush(acc, key, s) ==
    [k \in (DOMAIN acc) \cup {key} |->
        IF k = key
        THEN (IF key \in DOMAIN acc THEN Append(acc[key], s) ELSE <<s>>)
        ELSE acc[k]]

\* `for (const key of brands) ...` from position j on
RECURSIVE PushBrands(_, _, _, _)
PushBrands(acc, brands, j, s) ==
    IF j > Len(brands) THEN acc
    ELSE PushBrands(AccPush(acc, brands[j], s), brands, j + 1, s)

\* spools.reduce(..., acc) from position i on
RECURSIVE GroupReduce(_, _, _)
GroupReduce(acc, list, i) ==
    IF i > Len(list) THEN acc
    ELSE GroupReduce(PushBrands(acc, expandBrands(BrandOf(list[i])), 1, list[i]),
                     list, i + 1)

EmptyRecord == [k \in {} |-> <<>>]

groupByBrand(list) == GroupReduce(EmptyRecord, list, 1)

\* The accumulator is the object literal `{}` (line 94), which inherits the
\* properties of Object.prototype: for such a key `!acc[key]` is false on
\* the first visit, no list is created, and `acc[key].push` is no function
ObjectPrototypeKeys ==
    { <<"c", "o", "n", "s", "t", "r", "u", "c", "t", "o", "r">>,
      <<"_", "_", "p", "r", "o", "t", "o", "_", "_">>,
      <<"h", "a", "s", "O", "w", "n", "P", "r", "o", "p", "e", "r", "t", "y">>,
      <<"i", "s", "P", "r", "o", "t", "o", "t", "y", "p", "e", "O", "f">>,
      <<"p", "r", "o", "p", "e", "r", "t", "y", "I", "s", "E", "n", "u", "m", "e", "r", "a", "b", "l", "e">>,
      <<"t", "o", "L", "o", "c", "a", "l", "e", "S", "t", "r", "i", "n", "g">>,
      <<"t", "o", "S", "t", "r", "i", "n", "g">>,
      <<"v", "a", "l", "u", "e", "O", "f">>,
      <<"_", "_", "d", "e", "f", "i", "n", "e", "G", "e", "t", "t", "e", "r", "_", "_">>,
      <<"_", "_", "d", "e", "f", "i", "n", "e", "S", "e", "t", "t", "e", "r", "_", "_">>,
      <<"_", "_", "l", "o", "o", "k", "u", "p", "G", "e", "t", "t", "e", "r", "_", "_">>,
      <<"_", "_", "l", "o", "o", "k", "u", "p", "S", "e", "t", "t", "e", "r", "_", "_">> }

\* groupByBrand(list) raises a TypeError; otherwise it returns groupByBrand(list)
groupByBrandThrows(list) ==
    \E i \in 1..Len(list) :
        \E j \in 1..Len(expandBrands(BrandOf(list[i]))) :
            expandBrands(BrandOf(list[i]))[j] \in ObjectPrototypeKeys

(***************************************************************************)
(* fuzzyBrandFilter (lines 107-129)                                        *)
(***************************************************************************)
\* b.includes(q)
includes(b, q) ==
    \E i \in 1..(Len(b) + 1) :
        i + Len(q) - 1 <= Len(b) /\ SubSeq(b, i, i + Len(q) - 1) = q

\* the loop of isSubsequence from position j of haystack on, i characters of
\* needle matched so far; the value is the final i
RECURSIVE SubsequenceScan(_, _, _, _)
SubsequenceScan(needle, haystack, j, i) ==
    IF j > Len(haystack) THEN i
    ELSE SubsequenceScan(needle, haystack, j + 1,
                         IF i < Len(needle) /\ haystack[j] = needle[i + 1]
                         THEN i + 1 ELSE i)

isSubsequence_OnlyPrefix(needle, haystack) == startsWith(haystack, needle)

isSubsequence(needle, haystack) ==
    SubsequenceScan(needle, haystack, 1, 0) = Len(needle)

\* the callback of brands.some for the trimmed lower-cased query q
BrandMatches(alias, q) ==
    LET b == toLowerCase(alias)
    IN  IF b = <<>> THEN FALSE
        ELSE includes(b, q) \/ isSubsequence(q, b)

\* the callback of spools.filter
SpoolMatches(s, q) ==
    LET brands == expandBrands(BrandOf(s))
    IN  IF Len(brands) = 0 THEN FALSE
        ELSE \E j \in 1..Len(brands) : BrandMatches(brands[j], q)

\* spools.filter(...) from position i on
RECURSIVE FilterSpools(_, _, _)
FilterSpools(list, q, i) ==
    IF i > Len(list) THEN <<>>
    ELSE (IF SpoolMatches(list[i], q) THEN <<list[i]>> ELSE <<>>)
         \o FilterSpools(list, q, i + 1)

fuzzyBrandFilter_NoEarlyReturn(list, query) ==
    FilterSpools(list, toLowerCase(Trim(query)), 1)

fuzzyBrandFilter(list, query) ==
    LET q == toLowerCase(Trim(query))
    IN  IF q = <<>> THEN list
        ELSE FilterSpools(list, q, 1)

(***************************************************************************)
(* The estimator (the useMemo of lines 190-218) and estimateLengthMeters   *)
(***************************************************************************)
CARDBOARD_CORE_WEIGHT_GRAMS == 40

\* JS truthiness of s.refillable
Refillable(s) == "refillable" \in DOMAIN s /\ s.refillable = TRUE

\* mutant: the `!weightGrams` test is dropped, so a zero weight has length 0
estimateLengthMeters_NoWeightTest(weightGrams, diameterMm) ==
    IF diameterMm = Null \/ ~TruthyNum(diameterMm)
    THEN Null
    ELSE RDiv(RDiv(RDiv(weightGrams, Rat(124, 100)),
                   RMul(RDiv(diameterMm, Num(20)), RDiv(diameterMm, Num(20)))),
              Num(100))

\* estimateLengthMeters(weightGrams, diameterMm); the result q stands for
\* q / Math.PI metres (Math.PI is kept symbolic), an absent diameter is Null
estimateLengthMeters(weightGrams, diameterMm) ==
    IF ~TruthyNum(weightGrams) \/ diameterMm = Null \/ ~TruthyNum(diameterMm)
    THEN Null
    ELSE LET density          == Rat(124, 100)
             radiusCm         == RDiv(RDiv(diameterMm, Num(10)), Num(2))
             crossSectionArea == RMul(radiusCm, radiusCm)   \* times Math.PI
             volumeCm3        == RDiv(weightGrams, density)
             lengthCm         == RDiv(volumeCm3, crossSectionArea)
         IN  RDiv(lengthCm, Num(100))

\* mutant: the spool's own filamentWeightGrams wins over the override
NominalFilament_PrefersSpool(s, size) ==
    LET selectedNominal == ParseFloat(IF size = <<>> THEN <<"0">> ELSE size)
    IN  IF "filamentWeightGrams" \in DOMAIN s THEN s.filamentWeightGrams
        ELSE IF RGt(selectedNominal, Zero) THEN selectedNominal
        ELSE Zero

\* const nominalFilament = selectedNominal > 0 ? selectedNominal
\*                                             : s.filamentWeightGrams ?? 0
NominalFilament(s, size) ==
    LET selectedNominal == ParseFloat(IF size = <<>> THEN <<"0">> ELSE size)
    IN  IF RGt(selectedNominal, Zero) THEN selectedNominal
        ELSE IF "filamentWeightGrams" \in DOMAIN s THEN s.filamentWeightGrams
        ELSE Zero

\* mutant: the core is added whenever includeCore is set (refillable not tested)
EffectiveEmpty_IgnoresRefillable(s, core) ==
    RAdd(IF "emptySpoolWeightGrams" \in DOMAIN s
         THEN s.emptySpoolWeightGrams ELSE Zero,
         IF core THEN Num(CARDBOARD_CORE_WEIGHT_GRAMS) ELSE Zero)

\* mutant: the core is never added
EffectiveEmpty_NeverAddsCore(s, core) ==
    IF "emptySpoolWeightGrams" \in DOMAIN s
    THEN s.emptySpoolWeightGrams ELSE Zero

\* const effectiveEmpty = emptyWeightBase + (refillable && includeCore ? 40 : 0)
EffectiveEmpty(s, core) ==
    LET emptyWeightBase ==
            IF "emptySpoolWeightGrams" \in DOMAIN s
            THEN s.emptySpoolWeightGrams ELSE Zero
    IN  RAdd(emptyWeightBase,
             IF Refillable(s) /\ core THEN Num(CARDBOARD_CORE_WEIGHT_GRAMS)
             ELSE Zero)

\* mutant: no Math.max(0, ...)
Remaining_NoFloor(measured, effectiveEmpty) == RSub(measured, effectiveEmpty)

\* const remaining = Math.max(0, measured - effectiveEmpty)
Remaining(measured, effectiveEmpty) ==
    MathMax(Zero, RSub(measured, effectiveEmpty))

\* mutant: no Math.min(remaining, nominal)
Clamped_NoCap(remaining, nominalFilament) == remaining

\* const clamped = nominal > 0 ? Math.min(remaining, nominal) : remaining
Clamped(remaining, nominalFilament) ==
    IF RGt(nominalFilament, Zero) THEN MathMin(remaining, nominalFilament)
    ELSE remaining

\* const percent = nominal > 0 ? (clamped / nominal) * 100 : null
Percent(clamped, nominalFilament) ==
    IF RGt(nominalFilament, Zero)
    THEN RMul(RDiv(clamped, nominalFilament), Num(100))
    ELSE Null

\* mutant: a falsy (zero) weight gives no conservative weight
Safe_NullWhenZero(clamped) ==
    IF TruthyNum(clamped) THEN RMul(clamped, Rat(9, 10)) ELSE Null

\* const safe = clamped * 0.9
Safe(clamped) == RMul(clamped, Rat(9, 10))

AllNull == <<Null, Null, Null, Null>>

\* mutant: only `!measured` is tested, a negative weight passes
MeasuredRejected_OnlyFalsy(measured) == ~TruthyNum(measured)

\* the guard `if (!measured || measured <= 0) return [null, ...]`
MeasuredRejected(measured) == ~TruthyNum(measured) \/ RLe(measured, Zero)

\* [remainingWeight, remainingLength, remainingPercent, safeWeight];
\* cur is currentSpool: Null or <<spool>>
Estimate(cur, measuredText, size, core) ==
    IF cur = Null THEN AllNull
    ELSE LET s        == cur[1]
             measured == ParseFloat(measuredText)
         IN  IF MeasuredRejected(measured) THEN AllNull
             ELSE LET nominalFilament == NominalFilament(s, size)
                      clamped == Clamped(Remaining(measured, EffectiveEmpty(s, core)),
                                         nominalFilament)
                      length  == estimateLengthMeters(clamped,
                                     IF "filamentDiameterMm" \in DOMAIN s
                                     THEN s.filamentDiameterMm ELSE Null)
                  IN  <<clamped, length, Percent(clamped, nominalFilament),
                        Safe(clamped)>>

(***************************************************************************)
(* Inputs of the model                                                     *)
(***************************************************************************)
\* number of entries of SPOOL_FILES the model loads
NumFiles == 2

\* brand strings
ESUN         == <<"E", "S", "U", "N">>
Generic      == <<"G", "e", "n">>
ESUN_Generic == ESUN \o <<"/">> \o Generic
Bambu_Padded == <<" ", "B", "L", " ", "/", " ", "/">> \o ESUN

\* JSON bodies a fetch of spools/<file> may answer with
SpoolSamples ==
    { [brand |-> ESUN_Generic, type |-> <<"P">>, image |-> <<"/", "i">>,
       filamentDiameterMm |-> Rat(175, 100), filamentWeightGrams |-> Num(1000),
       emptySpoolWeightGrams |-> Num(250), refillable |-> FALSE],
      [brand |-> Bambu_Padded, type |-> <<"R">>,
       filamentDiameterMm |-> Rat(175, 100), filamentWeightGrams |-> Num(1000),
       emptySpoolWeightGrams |-> Num(250), refillable |-> TRUE],
      [brand |-> ESUN, type |-> <<"C">>,
       emptySpoolWeightGrams |-> Num(200)] }

\* outcomes of one pass of the loop body of loadSpools
FetchFailures == {"network error", "not ok", "bad json"}

\* texts the measured-weight input holds (type="number": "" or a number)
MeasuredTexts ==
    { <<>>, <<"0">>, <<"-", "5">>, <<"2", "5", "0">>, <<"2", "9", "0">>,
      <<"8", "0", "0">>, <<"1", "2", ".", "5">> }

\* texts typed into the brand search box of the library tab
BrandSearchTexts == { <<>>, <<"G", "n">> }

\* the values of the three options of the Spool Size select
SpoolSizeOptions ==
    { <<"2", "5", "0">>, <<"1", "0", "0", "0">>, <<"3", "0", "0", "0">> }

(***************************************************************************)
(* Derived values of a render (the useMemo hooks of lines 165-181)         *)
(***************************************************************************)
SpoolsByBrandOf(sp) == groupByBrand(sp)

\* brand && spoolsByBrand[brand] ? spoolsByBrand[brand] : []
CurrentBrandSpoolsOf(sp, br) ==
    IF br = <<>> THEN <<>>
    ELSE LET byBrand == SpoolsByBrandOf(sp)
         IN  IF br \in DOMAIN byBrand THEN byBrand[br] ELSE <<>>

\* spoolIndex != null && list[spoolIndex] ? list[spoolIndex] : null
\* (JS indexes from 0; an index outside the list reads undefined)
CurrentSpoolOf(sp, br, idx) ==
    LET list == CurrentBrandSpoolsOf(sp, br)
    IN  IF idx # Null /\ idx[1] + 1 \in 1..Len(list)
        THEN <<list[idx[1] + 1]>> ELSE Null

spoolsByBrand      == SpoolsByBrandOf(spools)
currentBrandSpools == CurrentBrandSpoolsOf(spools, brand)
currentSpool       == CurrentSpoolOf(spools, brand, spoolIndex)

\* the cards of the library tab (lines 241-244)
filteredSpoolsForLibrary == fuzzyBrandFilter(spools, brandFilter)

\* the brand select offers "" and every key of spoolsByBrand
BrandOptionValues == {<<>>} \cup DOMAIN spoolsByBrand

\* the type select offers "" and one option per entry, valued by its index
TypeOptionValues ==
    {<<>>} \cup {NumToString(i - 1) : i \in 1..Len(currentBrandSpools)}

\* position of a letter in the alphabet, whatever its case
LetterIndex(c) ==
    CHOOSE i \in 1..Len(UpperCase) : UpperCase[i] = c \/ LowerCase[i] = c

\* a.localeCompare(b) < 0 for strings of ASCII letters: alphabetical without
\* regard to case, a shorter string before its extensions, and between
\* strings equal but for case the one with the first lower-case difference
RECURSIVE LocaleBefore(_, _, _)
LocaleBefore(a, b, caseOnly) ==
    IF a = <<>> \/ b = <<>> THEN a = <<>> /\ b # <<>>
    ELSE IF (~caseOnly /\ LetterIndex(a[1]) # LetterIndex(b[1]))
         THEN LetterIndex(a[1]) < LetterIndex(b[1])
    ELSE IF (caseOnly /\ a[1] # b[1])
         THEN a[1] = LowerChar(a[1])
    ELSE LocaleBefore(Tail(a), Tail(b), caseOnly)

\* the sign of a.localeCompare(b)
localeCompare(a, b) ==
    IF LocaleBefore(a, b, FALSE) THEN -1
    ELSE IF LocaleBefore(b, a, FALSE) THEN 1
    ELSE IF LocaleBefore(a, b, TRUE) THEN -1
    ELSE IF LocaleBefore(b, a, TRUE) THEN 1
    ELSE 0

\* s put into the sorted list behind every entry that does not compare
\* greater (Array.prototype.sort is stable)
RECURSIVE InsertByType(_, _)
InsertByType(sorted, s) ==
    IF sorted = <<>> THEN <<s>>
    ELSE IF localeCompare(Head(sorted).type, s.type) <= 0
         THEN <<Head(sorted)>> \o InsertByType(Tail(sorted), s)
    ELSE <<s>> \o sorted

\* list.slice().sort((a, b) => a.type.localeCompare(b.type)), entries 1..n
RECURSIVE SortByType(_, _)
SortByType(list, n) ==
    IF n = 0 THEN <<>>
    ELSE InsertByType(SortByType(list, n - 1), list[n])

\* the spools whose type labels the options of the type select show: the
\* option with value idx shows the label of entry idx + 1
TypeOptionSpools == SortByType(currentBrandSpools, Len(currentBrandSpools))

\* currentSpool?.refillable, for cur = Null or <<spool>>
CurRefillable(cur) == cur # Null /\ Refillable(cur[1])

\* mutant: the checkbox is rendered for every selected spool
CheckboxOffered_AnySpool == currentSpool # Null

\* line 446: the checkbox is rendered iff currentSpool?.refillable
CheckboxOffered == CurRefillable(currentSpool)

\* the four results of the render
estimate        == Estimate(currentSpool, measuredWeight, spoolSize, includeCore)
remainingWeight  == estimate[1]
remainingLength  == estimate[2]
remainingPercent == estimate[3]
safeWeight       == estimate[4]

(***************************************************************************)
(* The App: initial state and handlers                                     *)
(***************************************************************************)
\* the effect of lines 184-188 is scheduled by a render whose dependencies
\* [currentSpool, includeCore] differ from those of the previous render
DepsChanged(cur, core, cur2, core2) == cur # cur2 \/ core # core2

InitApp ==
    /\ fileIdx = 1
    /\ results = <<>>
    /\ loaded = FALSE
    /\ spools = <<>>
    /\ brand = <<>>
    /\ spoolIndex = Null
    /\ measuredWeight = <<>>
    /\ spoolSize = <<"1", "0", "0", "0">>
    /\ includeCore = FALSE
    /\ effectPending = FALSE
    /\ fetchLog = <<>>
    /\ brandFilter = <<>>

\* no call of the pure functions is under way
InitNoCall ==
    /\ fnArgs = Null
    /\ fnOut = Null

(***************************************************************************)
(* The texts of the Scan and Add Spool tabs                                *)
(***************************************************************************)
\* the character U+2026 (horizontal ellipsis), written as one element
Ellipsis == "U+2026"

STATUS_IDLE ==
    <<"i", "d", "l", "e">>

STATUS_NO_FILE ==
    <<"N", "o", " ", "f", "i", "l", "e", " ", "s", "e", "l", "e", "c", "t",
      "e", "d", ".">>

STATUS_OK ==
    <<"o", "k">>

STATUS_ERROR_CONTACTING ==
    <<"E", "r", "r", "o", "r", " ", "c", "o", "n", "t", "a", "c", "t", "i",
      "n", "g", " ", "b", "a", "c", "k", "e", "n", "d", ".">>

STATUS_REQUIRED ==
    <<"B", "r", "a", "n", "d", ",", " ", "t", "y", "p", "e", ",", " ", "a",
      "n", "d", " ", "i", "m", "a", "g", "e", " ", "a", "r", "e", " ", "r",
      "e", "q", "u", "i", "r", "e", "d", ".">>

STATUS_SAVED ==
    <<"S", "a", "v", "e", "d", ".", " ", "Y", "o", "u", " ", "c", "a", "n",
      " ", "n", "o", "w", " ", "c", "o", "m", "m", "i", "t", " ", "t", "h",
      "e", " ", "n", "e", "w", " ", "f", "i", "l", "e", "s", ".">>

STATUS_ERROR_SUBMITTING ==
    <<"E", "r", "r", "o", "r", " ", "s", "u", "b", "m", "i", "t", "t", "i",
      "n", "g", " ", "s", "p", "o", "o", "l", ".">>

BACKEND_ERROR_PREFIX ==
    <<"B", "a", "c", "k", "e", "n", "d", " ", "e", "r", "r", "o", "r", ":",
      " ">>

STATUS_SENDING ==
    <<"S", "e", "n", "d", "i", "n", "g", " ", "i", "m", "a", "g", "e", " ",
      "t", "o", " ", "b", "a", "c", "k", "e", "n", "d">> \o <<Ellipsis>>

STATUS_SUBMITTING ==
    <<"S", "u", "b", "m", "i", "t", "t", "i", "n", "g">> \o <<Ellipsis>>

\* the Scan and Add Spool tabs after construction (lines 141-158)
InitBackend ==
    /\ scanFile = Null
    /\ scanResult = Null
    /\ scanStatus = STATUS_IDLE
    /\ scanRequests = <<>>
    /\ contribBrand = <<>>
    /\ contribType = <<>>
    /\ contribImageFile = Null
    /\ contribStatus = <<>>
    /\ contribResult = Null
    /\ contribRequests = <<>>
    /\ lastEvent = [kind |-> "none"]

Init ==
    /\ InitApp
    /\ estArgs = Null
    /\ estOut = Null
    /\ InitNoCall
    /\ InitBackend

\* spool.image = withBaseUrl(spool.image): the parsed object with its image
\* path rewritten; an undefined image reads like an absent one and is
\* left out of the record
NormalizeImage(json) ==
    LET image == withBaseUrl(IF "image" \in DOMAIN json THEN json.image ELSE Null)
        rest  == [k \in (DOMAIN json) \ {"image"} |-> json[k]]
    IN  IF image = Null THEN rest
        ELSE [k \in (DOMAIN json) \cup {"image"} |->
                 IF k = "image" THEN image ELSE json[k]]

\* mutant: the first failing fetch ends the loop
FetchFile_StopsAtFailure ==
    /\ fileIdx <= NumFiles
    /\ \/ \E json \in SpoolSamples :
            /\ results' = Append(results, NormalizeImage(json))
            /\ fetchLog' = Append(fetchLog, <<json>>)
            /\ fileIdx' = fileIdx + 1
       \/ \E failure \in FetchFailures :
            /\ results' = results
            /\ fetchLog' = Append(fetchLog, Null)
            /\ fileIdx' = NumFiles + 1
    /\ UNCHANGED <<loaded, spools, brand, spoolIndex, measuredWeight, spoolSize,
                   includeCore, effectPending, estArgs, estOut,
                   brandFilter, fnVars, backendVars>>

\* mutant: the catalog is published after every file
FetchFile_PublishesEachFile ==
    /\ fileIdx <= NumFiles
    /\ \/ \E json \in SpoolSamples :
            /\ results' = Append(results, NormalizeImage(json))
            /\ fetchLog' = Append(fetchLog, <<json>>)
       \/ \E failure \in FetchFailures :
            /\ results' = results
            /\ fetchLog' = Append(fetchLog, Null)
    /\ spools' = results'
    /\ fileIdx' = fileIdx + 1
    /\ UNCHANGED <<loaded, brand, spoolIndex, measuredWeight, spoolSize,
                   includeCore, effectPending, estArgs, estOut,
                   brandFilter, fnVars, backendVars>>

\* one pass of the loop of loadSpools: the fetch of file fileIdx answers with
\* a JSON body that is pushed, or fails and is skipped
FetchFile ==
    /\ fileIdx <= NumFiles
    /\ \/ \E json \in SpoolSamples :
            /\ results' = Append(results, NormalizeImage(json))
            /\ fetchLog' = Append(fetchLog, <<json>>)
       \/ \E failure \in FetchFailures :
            /\ results' = results
            /\ fetchLog' = Append(fetchLog, Null)
    /\ fileIdx' = fileIdx + 1
    /\ UNCHANGED <<loaded, spools, brand, spoolIndex, measuredWeight, spoolSize,
                   includeCore, effectPending, estArgs, estOut,
                   brandFilter, fnVars, backendVars>>

\* loadSpools().then(setSpools)
LoadResolve ==
    /\ fileIdx = NumFiles + 1
    /\ ~loaded
    /\ ~effectPending
    /\ loaded' = TRUE
    /\ spools' = results
    /\ effectPending' = DepsChanged(currentSpool, includeCore,
                                    CurrentSpoolOf(results, brand, spoolIndex),
                                    includeCore)
    /\ UNCHANGED <<fetchLog, fileIdx, results, brand, spoolIndex, measuredWeight,
                   spoolSize, includeCore, estArgs, estOut,
                   brandFilter, fnVars, backendVars>>

\* mutant: selecting a brand keeps the type index
onSelectBrand_KeepsIndex ==
    /\ ~effectPending
    /\ \E value \in BrandOptionValues :
        /\ brand' = value
        /\ spoolIndex' = spoolIndex
        /\ effectPending' = DepsChanged(currentSpool, includeCore,
                                        CurrentSpoolOf(spools, value, spoolIndex),
                                        includeCore)
    /\ UNCHANGED <<fetchLog, fileIdx, results, loaded, spools, measuredWeight, spoolSize,
                   includeCore, estArgs, estOut,
                   brandFilter, fnVars, backendVars>>

\* onSelectBrand(value)
onSelectBrand ==
    /\ ~effectPending
    /\ \E value \in BrandOptionValues :
        /\ brand' = value
        /\ spoolIndex' = Null
        /\ effectPending' = DepsChanged(currentSpool, includeCore,
                                        CurrentSpoolOf(spools, value, Null),
                                        includeCore)
    /\ UNCHANGED <<fetchLog, fileIdx, results, loaded, spools, measuredWeight, spoolSize,
                   includeCore, estArgs, estOut,
                   brandFilter, fnVars, backendVars>>

\* onSelectSpoolIndex(idx); the select is disabled while the list is empty
onSelectSpoolIndex ==
    /\ ~effectPending
    /\ Len(currentBrandSpools) # 0
    /\ \E idx \in TypeOptionValues :
        LET n == ParseInt(idx)
        IN  /\ spoolIndex' = n
            /\ effectPending' = DepsChanged(currentSpool, includeCore,
                                            CurrentSpoolOf(spools, brand, n),
                                            includeCore)
    /\ UNCHANGED <<fetchLog, fileIdx, results, loaded, spools, brand, measuredWeight,
                   spoolSize, includeCore, estArgs, estOut,
                   brandFilter, fnVars, backendVars>>

\* onChange of the measured-weight input
SetMeasuredWeight ==
    /\ ~effectPending
    /\ \E text \in MeasuredTexts : measuredWeight' = text
    /\ UNCHANGED <<fetchLog, fileIdx, results, loaded, spools, brand, spoolIndex,
                   spoolSize, includeCore, effectPending, estArgs, estOut,
                   brandFilter, fnVars, backendVars>>

\* onChange of the Spool Size select
SetSpoolSize ==
    /\ ~effectPending
    /\ \E value \in SpoolSizeOptions : spoolSize' = value
    /\ UNCHANGED <<fetchLog, fileIdx, results, loaded, spools, brand, spoolIndex,
                   measuredWeight, includeCore, effectPending, estArgs, estOut,
                   brandFilter, fnVars, backendVars>>

\* onChange of the "Include refill spool core" checkbox, which exists only
\* while it is rendered; e.target.checked is the toggled value
ToggleIncludeCore ==
    /\ ~effectPending
    /\ CheckboxOffered
    /\ includeCore' = ~includeCore
    /\ effectPending' = TRUE
    /\ UNCHANGED <<fetchLog, fileIdx, results, loaded, spools, brand, spoolIndex,
                   measuredWeight, spoolSize, estArgs, estOut,
                   brandFilter, fnVars, backendVars>>

\* onChange of the brand search box of the library tab (lines 562-567)
SetBrandFilter ==
    /\ ~effectPending
    /\ \E text \in BrandSearchTexts : brandFilter' = text
    /\ UNCHANGED <<fetchLog, fileIdx, results, loaded, spools, brand, spoolIndex,
                   measuredWeight, spoolSize, includeCore, effectPending,
                   estArgs, estOut, fnVars, backendVars>>

\* mutant: the effect resets only when no spool is selected
ResetIncludeCoreEffect_OnlyWhenNoSpool ==
    /\ effectPending
    /\ includeCore' = IF currentSpool = Null /\ includeCore
                      THEN FALSE ELSE includeCore
    /\ effectPending' = (includeCore' # includeCore)
    /\ UNCHANGED <<fetchLog, fileIdx, results, loaded, spools, brand, spoolIndex,
                   measuredWeight, spoolSize, estArgs, estOut,
                   brandFilter, fnVars, backendVars>>

\* the effect: if (!currentSpool?.refillable && includeCore) setIncludeCore(false)
\* and the render that follows it
ResetIncludeCoreEffect ==
    /\ effectPending
    /\ includeCore' = IF ~CurRefillable(currentSpool) /\ includeCore
                      THEN FALSE ELSE includeCore
    /\ effectPending' = (includeCore' # includeCore)
    /\ UNCHANGED <<fetchLog, fileIdx, results, loaded, spools, brand, spoolIndex,
                   measuredWeight, spoolSize, estArgs, estOut,
                   brandFilter, fnVars, backendVars>>

Next ==
    \/ FetchFile
    \/ LoadResolve
    \/ onSelectBrand
    \/ onSelectSpoolIndex
    \/ SetMeasuredWeight
    \/ SetSpoolSize
    \/ ToggleIncludeCore
    \/ ResetIncludeCoreEffect

Spec == Init /\ [][Next]_vars

\* the calculator together with the search box of the library tab
NextWithLibrary == Next \/ SetBrandFilter

SpecWithLibrary == Init /\ [][NextWithLibrary]_vars

(***************************************************************************)
(* The estimator called as a pure function                                 *)
(*   estimate(spec, nominalOverride, includeCore, measuredWeightText)      *)
(***************************************************************************)
\* a record holding key k with each value of V, or no key at all
Optional(k, V) == {EmptyRecord} \cup {k :> v : v \in V}

\* spool specifications: every combination of present and absent fields
EstSpools ==
    { [brand |-> ESUN, type |-> <<"P">>] @@ r @@ d @@ e @@ w :
        r \in Optional("refillable", {FALSE, TRUE}),
        d \in Optional("filamentDiameterMm", {Zero, Rat(175, 100)}),
        e \in Optional("emptySpoolWeightGrams", {Zero, Num(250)}),
        w \in Optional("filamentWeightGrams", {Num(200), Num(1000)}) }

\* measured-weight texts, valid and invalid
EstMeasuredTexts ==
    MeasuredTexts \cup
    { <<"a", "b", "c">>, <<"-", "0">>, <<" ", "4", "0">>, <<"5", "a">>,
      <<".", "5">>, <<"2", "0", "0">>, <<"2", "4", "0">>, <<"3", "0", "0">>,
      <<"1", "2", "9", "0">>, <<"3", "5", "0", "0">> }

\* spool-size overrides: the three options, none, zero and a non-number
EstOverrides == SpoolSizeOptions \cup { <<>>, <<"0">>, <<"a", "b", "c">> }

EstInputs ==
    [spec : {Null} \cup {<<s>> : s \in EstSpools},
     nominalOverride : EstOverrides,
     includeCore : BOOLEAN,
     measuredWeightText : EstMeasuredTexts]

EstimateArgs(a) ==
    Estimate(a.spec, a.measuredWeightText, a.nominalOverride, a.includeCore)

InitEstimator ==
    /\ InitApp
    /\ estArgs \in EstInputs
    /\ estOut = Null
    /\ InitNoCall
    /\ InitBackend

\* the call: the four results are computed from the arguments
CallEstimate ==
    /\ estOut = Null
    /\ estOut' = <<EstimateArgs(estArgs)>>
    /\ UNCHANGED <<appVars, estArgs, fnVars, backendVars>>

NextEstimator == CallEstimate

SpecEstimator == InitEstimator /\ [][NextEstimator]_vars

(***************************************************************************)
(* Properties of the estimator (checked under SpecEstimator)               *)
(***************************************************************************)
Called     == estOut # Null
Out        == estOut[1]
ArgSpool   == estArgs.spec[1]
ArgMeasured == ParseFloat(estArgs.measuredWeightText)
HasSpool   == estArgs.spec # Null
\* the call got past both null guards
Computed   == Called /\ HasSpool /\ RGt(ArgMeasured, Zero)

\* s.emptySpoolWeightGrams, 0 if absent
BaseEmpty(s) ==
    IF "emptySpoolWeightGrams" \in DOMAIN s THEN s.emptySpoolWeightGrams ELSE Zero

\* the arguments with includeCore set to c
WithCore(a, c) == [a EXCEPT !.includeCore = c]

\* max(0, x), capped at nominal when nominal > 0
ClampTo(x, nominal) ==
    IF RLe(x, Zero) THEN Zero
    ELSE IF RGt(nominal, Zero) /\ RGt(x, nominal) THEN nominal
    ELSE x

\* C1: for a spool whose refillable flag is false or absent the four outputs
\* are the same with includeCore true and with includeCore false, and the
\* effective empty weight is the base empty weight: the 40 g are never added.
C1_NonRefillableIgnoresIncludeCore ==
    (Called /\ HasSpool /\ ~Refillable(ArgSpool)) =>
        /\ Out = EstimateArgs(WithCore(estArgs, TRUE))
        /\ Out = EstimateArgs(WithCore(estArgs, FALSE))
        /\ EffectiveEmpty(ArgSpool, estArgs.includeCore) = BaseEmpty(ArgSpool)

C1_Witness ==
    /\ Computed
    /\ ~Refillable(ArgSpool)
    /\ estArgs.includeCore
    /\ RGt(Out[1], Zero)

\* C2: for a refillable spool the effective empty weight is
\* emptySpoolWeightGrams (0 if absent) + 40 with includeCore, and exactly
\* emptySpoolWeightGrams without it; remainingWeight is the clamp of
\* measured - effective empty.
C2_RefillableCoreAdds40 ==
    (Computed /\ Refillable(ArgSpool)) =>
        LET expectedEmpty ==
                IF estArgs.includeCore
                THEN RAdd(BaseEmpty(ArgSpool), Num(40))
                ELSE BaseEmpty(ArgSpool)
        IN  /\ EffectiveEmpty(ArgSpool, estArgs.includeCore) = expectedEmpty
            /\ Out[1] = ClampTo(RSub(ArgMeasured, expectedEmpty),
                                NominalFilament(ArgSpool, estArgs.nominalOverride))

C2_Witness ==
    /\ Computed
    /\ Refillable(ArgSpool)
    /\ estArgs.includeCore
    /\ BaseEmpty(ArgSpool) = Num(250)
    /\ ArgMeasured = Num(800)
    /\ Out[1] = Num(510)
    /\ Out[4] = Num(459)

\* C3: a non-null remainingWeight is >= 0, is <= the nominal filament mass
\* when that is > 0, and is 0 when the measured weight is at or below the
\* effective empty weight.
C3_RemainingWithinBounds ==
    (Called /\ Out[1] # Null) =>
        LET nominal == NominalFilament(ArgSpool, estArgs.nominalOverride)
        IN  /\ RGe(Out[1], Zero)
            /\ RGt(nominal, Zero) => RLe(Out[1], nominal)
            /\ RLe(ArgMeasured, EffectiveEmpty(ArgSpool, estArgs.includeCore))
                   => Out[1] = Zero

C3_Witness ==
    /\ Computed
    /\ RGt(EffectiveEmpty(ArgSpool, estArgs.includeCore), ArgMeasured)
    /\ Out[1] = Zero

\* C4: whenever remainingWeight is non-null, safeWeight is non-null and is
\* nine tenths of it, also when remainingWeight is 0.
C4_SafeIsNineTenths ==
    (Called /\ Out[1] # Null) =>
        /\ Out[4] # Null
        /\ RMul(Out[4], Num(10)) = RMul(Out[1], Num(9))

C4_Witness ==
    /\ Called
    /\ Out[1] = Zero
    /\ Out[4] = Zero

\* C5: the four outputs are null together when no spool is given or the
\* measured text does not parse to a number > 0; in every other case
\* remainingWeight and safeWeight are non-null; the call always returns its
\* four results.
C5_NullTogether ==
    Called =>
        /\ Len(Out) = 4
        /\ (~HasSpool \/ ~RGt(ArgMeasured, Zero)) => Out = AllNull
        /\ (HasSpool /\ RGt(ArgMeasured, Zero)) => (Out[1] # Null /\ Out[4] # Null)

C5_Witness ==
    /\ Called
    /\ HasSpool
    /\ estArgs.measuredWeightText = <<"-", "5">>
    /\ Out = AllNull

\* the nominal filament mass as the claim states it: the override when it
\* parses to a number > 0, else the spool's filamentWeightGrams, else 0
StatedNominal(s, override) ==
    IF RGt(ParseFloat(override), Zero) THEN ParseFloat(override)
    ELSE IF "filamentWeightGrams" \in DOMAIN s THEN s.filamentWeightGrams
    ELSE Zero

\* C8: the nominal filament mass is the override when it parses to a number
\* > 0 and otherwise the spool's filamentWeightGrams (0 if absent); the cap of
\* remainingWeight and the percentage are taken against it, so an override
\* > 0 wins over the spool's own filamentWeightGrams.
C8_OverrideTakesPrecedence ==
    Computed =>
        LET nominal == StatedNominal(ArgSpool, estArgs.nominalOverride)
            uncapped == RSub(ArgMeasured,
                             EffectiveEmpty(ArgSpool, estArgs.includeCore))
        IN  /\ NominalFilament(ArgSpool, estArgs.nominalOverride) = nominal
            /\ Out[1] = ClampTo(uncapped, nominal)
            /\ RGt(nominal, Zero) =>
                   Out[3] = RMul(RDiv(Out[1], nominal), Num(100))

\* Scenario D with a larger measured weight, so that the cap is the override
C8_Witness ==
    /\ Computed
    /\ estArgs.nominalOverride = <<"2", "5", "0">>
    /\ "filamentWeightGrams" \in DOMAIN ArgSpool
    /\ ArgSpool.filamentWeightGrams = Num(1000)
    /\ ArgMeasured = Num(800)
    /\ Out[1] = Num(250)
    /\ Out[3] = Num(100)

\* C9: remainingPercent is null exactly when all outputs are null or the
\* nominal filament mass is <= 0; otherwise it is remainingWeight / nominal
\* x 100 and lies between 0 and 100.
C9_PercentRange ==
    Called =>
        LET nominal == IF HasSpool
                       THEN NominalFilament(ArgSpool, estArgs.nominalOverride)
                       ELSE Zero
        IN  /\ (Out[3] = Null) <=> (Out = AllNull \/ RLe(nominal, Zero))
            /\ Out[3] # Null =>
                   /\ Out[3] = RMul(RDiv(Out[1], nominal), Num(100))
                   /\ RGe(Out[3], Zero)
                   /\ RLe(Out[3], Num(100))

C9_Witness ==
    /\ Computed
    /\ RGt(RSub(ArgMeasured, EffectiveEmpty(ArgSpool, estArgs.includeCore)),
           NominalFilament(ArgSpool, estArgs.nominalOverride))
    /\ Out[3] = Num(100)

\* s.filamentDiameterMm is absent or 0
NoDiameter(s) ==
    "filamentDiameterMm" \notin DOMAIN s \/ s.filamentDiameterMm = Zero

\* the arguments with the spool given diameter d
WithDiameter(a, d) ==
    [a EXCEPT !.spec = <<[k \in (DOMAIN a.spec[1]) \cup {"filamentDiameterMm"} |->
                            IF k = "filamentDiameterMm" THEN d ELSE a.spec[1][k]]>>]

\* C10: remainingLength is null iff remainingWeight is null or 0 or the
\* diameter is absent or 0; a spool without a diameter has the remainingWeight,
\* remainingPercent and safeWeight of the same spool with a diameter.
C10_MissingDiameterOnlyDropsLength ==
    Called =>
        /\ (Out[2] = Null) <=>
               (Out[1] = Null \/ Out[1] = Zero \/ ~HasSpool \/ NoDiameter(ArgSpool))
        /\ (HasSpool /\ NoDiameter(ArgSpool)) =>
               \A d \in {Rat(175, 100), Num(3)} :
                   LET other == EstimateArgs(WithDiameter(estArgs, d))
                   IN  /\ Out[1] = other[1]
                       /\ Out[3] = other[3]
                       /\ Out[4] = other[4]

C10_Witness ==
    /\ Computed
    /\ "filamentDiameterMm" \notin DOMAIN ArgSpool
    /\ RGt(Out[1], Zero)
    /\ Out[2] = Null
    /\ Out[3] # Null
    /\ Out[4] # Null

(***************************************************************************)
(* Properties of the App (checked under Spec)                              *)
(***************************************************************************)
\* no effect is waiting to run
Settled == ~effectPending

\* currentSpool of the render after the step
currentSpoolNext == CurrentSpoolOf(spools', brand', spoolIndex')

\* includeCore is set for a spool that does not support it
StaleIncludeCore == includeCore /\ ~CurRefillable(currentSpool)

\* C6: a stale includeCore exists only while the effect is pending and the
\* effect's run resets it, so in every settled state includeCore implies a
\* refillable current spool; and a refillable spool selected from a state
\* without a refillable spool starts with includeCore false.
C6_IncludeCoreReset ==
    [][/\ (Settled /\ includeCore) => CurRefillable(currentSpool)
       /\ (Settled' /\ includeCore') => CurRefillable(currentSpoolNext)
       /\ StaleIncludeCore => (~includeCore' /\ currentSpoolNext = currentSpool)
       /\ (~CurRefillable(currentSpool) /\ CurRefillable(currentSpoolNext))
              => ~includeCore']_vars

C6_Witness ==
    /\ StaleIncludeCore
    /\ effectPending
    /\ currentSpool # Null

\* C7: in every state the checkbox is offered iff a spool is selected and its
\* refillable flag is true, and a step takes includeCore from false to true
\* only while such a spool is selected (and stays selected).
C7_CheckboxOnlyForRefillable ==
    [][/\ CheckboxOffered <=>
            (/\ currentSpool # Null
             /\ "refillable" \in DOMAIN currentSpool[1]
             /\ currentSpool[1].refillable = TRUE)
       /\ (~includeCore /\ includeCore') =>
            (/\ currentSpool # Null
             /\ Refillable(currentSpool[1])
             /\ currentSpoolNext = currentSpool)]_vars

C7_Witness ==
    /\ Settled
    /\ includeCore
    /\ CheckboxOffered


(***************************************************************************)
(* groupByBrand and fuzzyBrandFilter called as pure functions              *)
(***************************************************************************)
\* longest catalog a call is given
MaxSpecs == 3

\* brand strings beyond those of SpoolSamples: an alias written twice, only
\* separators, and a name that Object.prototype defines
ESUN_ESUN   == ESUN \o <<"/">> \o ESUN
OnlySlashes == <<" ", "/", " ">>
Constructor == <<"c", "o", "n", "s", "t", "r", "u", "c", "t", "o", "r">>

\* catalog entries: no brand, brands without an alias, one and two aliases
CatalogSpools ==
    { [type |-> <<"N">>],
      [brand |-> <<>>, type |-> <<"E">>],
      [brand |-> OnlySlashes, type |-> <<"O">>],
      [brand |-> ESUN, type |-> <<"C">>],
      [brand |-> ESUN_Generic, type |-> <<"P">>],
      [brand |-> Bambu_Padded, type |-> <<"R">>],
      [brand |-> ESUN_ESUN, type |-> <<"D">>],
      [brand |-> Constructor, type |-> <<"X">>] }

\* every list of at most n entries of S
RECURSIVE SeqsUpTo(_, _)
SeqsUpTo(S, n) ==
    IF n = 0 THEN {<<>>}
    ELSE SeqsUpTo(S, n - 1) \cup
         {Append(q, x) : q \in {r \in SeqsUpTo(S, n - 1) : Len(r) = n - 1}, x \in S}

\* texts of the brand search box
BrandQueries ==
    { <<>>, <<" ">>, <<" ", " ">>, <<"e", "s", "n">>, <<"E", "S", "U">>,
      <<" ", "G", "n", " ">>, <<"n", "s", "e">>, <<"b", "l">>,
      <<"c", "t", "o", "r">> }

CatalogInputs == [specs : SeqsUpTo(CatalogSpools, MaxSpecs), query : BrandQueries]

InitCatalog ==
    /\ InitApp
    /\ estArgs = Null
    /\ estOut = Null
    /\ fnArgs \in CatalogInputs
    /\ fnOut = Null
    /\ InitBackend

\* groupByBrand(specs): the returned object, or the TypeError it raises
CallGroupByBrand ==
    /\ fnOut = Null
    /\ fnOut' = IF groupByBrandThrows(fnArgs.specs)
                THEN << [fn |-> "groupByBrand", kind |-> "throw"] >>
                ELSE << [fn |-> "groupByBrand", kind |-> "return",
                         value |-> groupByBrand(fnArgs.specs)] >>
    /\ UNCHANGED <<appVars, estVars, fnArgs, backendVars>>

\* fuzzyBrandFilter(specs, query)
CallFuzzyBrandFilter ==
    /\ fnOut = Null
    /\ fnOut' = << [fn |-> "fuzzyBrandFilter", kind |-> "return",
                    value |-> fuzzyBrandFilter(fnArgs.specs, fnArgs.query)] >>
    /\ UNCHANGED <<appVars, estVars, fnArgs, backendVars>>

NextCatalog == CallGroupByBrand \/ CallFuzzyBrandFilter

SpecCatalog == InitCatalog /\ [][NextCatalog]_vars

(***************************************************************************)
(* Properties of the catalog functions (checked under SpecCatalog)         *)
(***************************************************************************)
GroupCalled  == fnOut # Null /\ fnOut[1].fn = "groupByBrand"
FilterCalled == fnOut # Null /\ fnOut[1].fn = "fuzzyBrandFilter"

\* the aliases of a spec: its brand split on "/", trimmed, empty parts dropped
AliasesOf(s) == expandBrands(BrandOf(s))

HasAlias(s, k) == \E j \in 1..Len(AliasesOf(s)) : AliasesOf(s)[j] = k

AllAliases(specs) ==
    UNION { {AliasesOf(specs[i])[j] : j \in 1..Len(AliasesOf(specs[i]))} :
            i \in 1..Len(specs) }

\* the specs of the list that have alias k, in the order of the list
SpecsWithAlias(specs, k) == SelectSeq(specs, LAMBDA s : HasAlias(s, k))

\* C11: groupByBrand(specs) maps each brand alias to the list of exactly the
\* specs that have that alias, in input order: its keys are the aliases of
\* the specs, a spec with two aliases is listed under both, a spec with no
\* alias under none, and no list is empty.
C11_GroupByBrandListsSpecsByAlias ==
    GroupCalled =>
        /\ fnOut[1].kind = "return"
        /\ DOMAIN fnOut[1].value = AllAliases(fnArgs.specs)
        /\ \A k \in DOMAIN fnOut[1].value :
              /\ fnOut[1].value[k] = SpecsWithAlias(fnArgs.specs, k)
              /\ fnOut[1].value[k] # <<>>

\* number of times alias k is written in the brand of s
RECURSIVE Occurrences(_, _, _)
Occurrences(s, k, j) ==
    IF j > Len(AliasesOf(s)) THEN 0
    ELSE (IF AliasesOf(s)[j] = k THEN 1 ELSE 0) + Occurrences(s, k, j + 1)

\* the specs of the list from position i on, each as often as it names k
RECURSIVE SpecsPerOccurrence(_, _, _)
SpecsPerOccurrence(specs, k, i) ==
    IF i > Len(specs) THEN <<>>
    ELSE [n \in 1..Occurrences(specs[i], k, 1) |-> specs[i]]
         \o SpecsPerOccurrence(specs, k, i + 1)

\* What groupByBrand does instead: it raises a TypeError exactly when an
\* alias names a property of Object.prototype, and otherwise lists a spec
\* under an alias once for every time its brand string names that alias.
GroupByBrandOncePerOccurrence ==
    GroupCalled =>
        IF AllAliases(fnArgs.specs) \cap ObjectPrototypeKeys # {}
        THEN fnOut[1].kind = "throw"
        ELSE /\ fnOut[1].kind = "return"
             /\ DOMAIN fnOut[1].value = AllAliases(fnArgs.specs)
             /\ \A k \in DOMAIN fnOut[1].value :
                   fnOut[1].value[k] = SpecsPerOccurrence(fnArgs.specs, k, 1)

\* t holds the characters of q in order, not necessarily next to each other
RECURSIVE IsSubsequenceOf(_, _)
IsSubsequenceOf(q, t) ==
    \/ q = <<>>
    \/ /\ t # <<>>
       /\ \/ q[1] = t[1] /\ IsSubsequenceOf(Tail(q), Tail(t))
          \/ IsSubsequenceOf(q, Tail(t))

\* q is a run of neighbouring characters of t
IsSubstringOf(q, t) ==
    \E i \in 0..Len(t) : \E j \in i..Len(t) : SubSeq(t, i + 1, j) = q

Query == toLowerCase(Trim(fnArgs.query))

\* the spec matches the query by one of its aliases
Kept(s) ==
    \E j \in 1..Len(AliasesOf(s)) :
        \/ IsSubstringOf(Query, toLowerCase(AliasesOf(s)[j]))
        \/ IsSubsequenceOf(Query, toLowerCase(AliasesOf(s)[j]))

\* C12: for a non-empty trimmed query fuzzyBrandFilter keeps a spec iff the
\* lower-cased query is a substring or a subsequence of one of its
\* lower-cased aliases; a spec without alias is never kept and the kept
\* specs stay in input order.
C12_FuzzyKeepsSubstringOrSubsequence ==
    (FilterCalled /\ Query # <<>>) =>
        /\ fnOut[1].value = SelectSeq(fnArgs.specs, Kept)
        /\ \A i \in 1..Len(fnOut[1].value) : AliasesOf(fnOut[1].value[i]) # <<>>

\* Scenario F: "esn" keeps brand "ESUN", of which it is no substring, and
\* drops a spec in front of it that has no alias
C12_Witness ==
    /\ FilterCalled
    /\ fnArgs.query = <<"e", "s", "n">>
    /\ fnArgs.specs = << [type |-> <<"N">>], [brand |-> ESUN, type |-> <<"C">>],
                         [brand |-> Bambu_Padded, type |-> <<"R">>] >>
    /\ ~IsSubstringOf(Query, toLowerCase(ESUN))
    /\ fnOut[1].value = << [brand |-> ESUN, type |-> <<"C">>],
                           [brand |-> Bambu_Padded, type |-> <<"R">>] >>

\* C13: with an empty or whitespace-only query fuzzyBrandFilter returns the
\* input list unchanged, the specs without a brand alias included.
C13_EmptyQueryReturnsInput ==
    (FilterCalled /\ Trim(fnArgs.query) = <<>>) => fnOut[1].value = fnArgs.specs

\* a whitespace-only query returns a list that holds a spec without alias
C13_Witness ==
    /\ FilterCalled
    /\ fnArgs.query = <<" ", " ">>
    /\ Len(fnArgs.specs) = MaxSpecs
    /\ \E i \in 1..Len(fnArgs.specs) : AliasesOf(fnArgs.specs[i]) = <<>>
    /\ \E i \in 1..Len(fnArgs.specs) : AliasesOf(fnArgs.specs[i]) # <<>>
    /\ fnOut[1].value = fnArgs.specs

(***************************************************************************)
(* Properties of the catalog load (checked under Spec; C17 under           *)
(* SpecWithLibrary)                                                        *)
(***************************************************************************)
\* the specs of the sources that answered, in the order of the source list,
\* each as loadSpools keeps it (its image path made relative to BASE_URL)
RECURSIVE SpecsOfAnswered(_, _)
SpecsOfAnswered(log, i) ==
    IF i > Len(log) THEN <<>>
    ELSE (IF log[i] = Null THEN <<>> ELSE <<NormalizeImage(log[i][1])>>)
         \o SpecsOfAnswered(log, i + 1)

\* C14: loadSpools isolates failures per source: whatever sources failed,
\* every source of the list is fetched, the load resolves, and the catalog
\* holds exactly the specs of the sources that answered, in list order.
C14_LoadIsolatesFailures ==
    /\ Len(fetchLog) = fileIdx - 1
    /\ results = SpecsOfAnswered(fetchLog, 1)
    /\ fileIdx <= NumFiles => ENABLED FetchFile
    /\ (fileIdx = NumFiles + 1 /\ ~loaded /\ ~effectPending) => ENABLED LoadResolve
    /\ loaded => /\ Len(fetchLog) = NumFiles
                 /\ spools = SpecsOfAnswered(fetchLog, 1)

\* the first source failed, the last one answered and is the whole catalog
C14_Witness ==
    /\ loaded
    /\ fetchLog[1] = Null
    /\ fetchLog[NumFiles] # Null
    /\ \A i \in 1..(NumFiles - 1) : fetchLog[i] = Null
    /\ spools = <<NormalizeImage(fetchLog[NumFiles][1])>>
    /\ "image" \in DOMAIN spools[1]
    /\ spools[1].image = BASE_URL \o <<"i">>

\* C17: the catalog list is written exactly once, when the load resolves:
\* it is empty until then, whatever has been fetched so far, the one write
\* stores the complete results, and no later step changes it.
C17_CatalogWrittenOnce ==
    [][/\ ~loaded => spools = <<>>
       /\ ~loaded' => spools' = <<>>
       /\ (~loaded /\ loaded') =>
              (fileIdx = NumFiles + 1 /\ spools' = results /\ results' = results)
       /\ loaded => (loaded' /\ spools' = spools)]_vars

\* after the load the user has selected a brand and a type, typed a weight
\* and a search text: the catalog is still the loaded one
C17_Witness ==
    /\ loaded
    /\ Len(spools) = NumFiles
    /\ spools = results
    /\ currentSpool # Null
    /\ measuredWeight # <<>>
    /\ brandFilter # <<>>
    /\ Len(filteredSpoolsForLibrary) < Len(spools)

\* C18: the spool the estimator uses is the spool whose type label the user
\* picked: the spec at the chosen option's index in the type-sorted option
\* list is currentBrandSpools[spoolIndex].
C18_PickedTypeIsCurrentSpool ==
    (spoolIndex # Null /\ spoolIndex[1] + 1 \in 1..Len(currentBrandSpools)) =>
        currentSpool = <<TypeOptionSpools[spoolIndex[1] + 1]>>

\* the four outputs of the render after the step
estimateNext ==
    Estimate(currentSpoolNext, measuredWeight', spoolSize', includeCore')

\* C21: selecting a brand clears the type selection: after the step
\* spoolIndex and currentSpool are null and the four outputs are null,
\* whatever the measured weight and the list of the new brand, and
\* measuredWeight and spoolSize are as before; the outputs stay null while
\* no type is chosen, and a type is chosen only by the type select.
C21_SelectBrandClearsType ==
    [][/\ brand' # brand =>
            /\ spoolIndex' = Null
            /\ currentSpoolNext = Null
            /\ estimateNext = AllNull
            /\ measuredWeight' = measuredWeight
            /\ spoolSize' = spoolSize
       /\ spoolIndex = Null => estimate = AllNull
       /\ (spoolIndex = Null /\ spoolIndex' # Null) => brand' = brand]_vars

\* a brand whose list has two spools is selected, no type is, and a valid
\* weight is typed: index 0 and 1 would both name a spool, no output is shown
C21_Witness ==
    /\ loaded
    /\ Settled
    /\ brand # <<>>
    /\ Len(currentBrandSpools) >= 2
    /\ spoolIndex = Null
    /\ currentSpool = Null
    /\ measuredWeight = <<"8", "0", "0">>
    /\ estimate = AllNull

(***************************************************************************)
(* The Scan and Add Spool tabs: handlers and the two backend calls         *)
(*   Each tab's handlers run whenever their tab is shown; `tab` itself is  *)
(*   not modelled, nor are the preview URLs.  Of the contribution form the *)
(*   brand, the type and the image are inputs; the description, the three  *)
(*   numbers and the refillable box keep their initial values.             *)
(***************************************************************************)
\* most requests of one kind awaiting their response
MaxInFlight == 2

\* the File objects of the two file inputs
ScanFiles     == {"a.png", "b.png"}
ContribImages == {"c.png"}

\* texts typed into the brand and type inputs of the contribution form
ContribBrandTexts == { <<>>, <<" ">>, <<" ", "E", " ">> }
ContribTypeTexts  == { <<>>, <<"P">> }

\* what a fetch of the backend may end with: a 2xx response with a JSON
\* body, a response with another status (over HTTP/2 its statusText is
\* empty), or a rejection
BackendResponses ==
    { [kind |-> "ok"],
      [kind |-> "status", status |-> 500,
       statusText |-> <<"I", "n", "t", "e", "r", "n", "a", "l", " ", "S", "e", "r", "v", "e", "r", " ", "E", "r", "r", "o", "r">>],
      [kind |-> "status", status |-> 404, statusText |-> <<>>],
      [kind |-> "rejected", message |-> <<"F", "a", "i", "l", "e", "d", " ", "t", "o", " ", "f", "e", "t", "c", "h">>] }

\* the body the backend answers an upload of `file` with
AnalysisOf(file) == [analysisOf |-> file]

\* the body the backend answers a contribution with
SavedAs(payload) == [spool |-> payload]

\* `Backend error: ${res.status} ${res.statusText}`
BackendErrorMessage(resp) ==
    BACKEND_ERROR_PREFIX \o NumToString(resp.status) \o <<" ">> \o resp.statusText

\* the promise of the two functions of api.ts: resolved with the parsed
\* body, or rejected with the error thrown
ApiCall(resp, data) ==
    IF resp.kind = "ok" THEN [resolved |-> TRUE, data |-> data]
    ELSE IF resp.kind = "status"
         THEN [resolved |-> FALSE, err |-> [message |-> BackendErrorMessage(resp)]]
    ELSE [resolved |-> FALSE, err |-> [message |-> resp.message]]

analyzeSpoolImage(file, resp) == ApiCall(resp, AnalysisOf(file))

submitSpoolContribution(payload, resp) == ApiCall(resp, SavedAs(payload))

\* err?.message ?? fallback
MessageOr(err, fallback) ==
    IF "message" \in DOMAIN err THEN err.message ELSE fallback

\* the list without its i-th entry
RemoveAt(s, i) == SubSeq(s, 1, i - 1) \o SubSeq(s, i + 1, Len(s))

\* the payload handleSubmitContribution builds (lines 308-323); undefined
\* fields are absent
ContribPayload ==
    [brand |-> Trim(contribBrand), type |-> Trim(contribType),
     refillable |-> FALSE, imageFile |-> contribImageFile[1]]

\* handleScanFileChange (lines 257-267)
handleScanFileChange ==
    /\ \E file \in {Null} \cup {<<f>> : f \in ScanFiles} :
        /\ scanFile' = file
        /\ scanResult' = Null
    /\ lastEvent' = [kind |-> "input"]
    /\ UNCHANGED <<scanStatus, scanRequests, contribVars, appVars, estVars, fnVars>>

\* mutant: a click uploads the file twice
handleAnalyzeClick_SendsTwice ==
    /\ lastEvent' = [kind |-> "analyzeClick"]
    /\ IF scanFile = Null
       THEN /\ scanStatus' = STATUS_NO_FILE
            /\ scanResult' = Null
            /\ UNCHANGED scanRequests
       ELSE /\ Len(scanRequests) < MaxInFlight
            /\ scanStatus' = STATUS_SENDING
            /\ scanRequests' = scanRequests \o <<scanFile[1], scanFile[1]>>
            /\ UNCHANGED scanResult
    /\ UNCHANGED <<scanFile, contribVars, appVars, estVars, fnVars>>

\* handleAnalyzeClick up to its await (lines 269-277): the button is never
\* disabled, and the request carries the file selected at the click
handleAnalyzeClick ==
    /\ lastEvent' = [kind |-> "analyzeClick"]
    /\ IF scanFile = Null
       THEN /\ scanStatus' = STATUS_NO_FILE
            /\ scanResult' = Null
            /\ UNCHANGED scanRequests
       ELSE /\ Len(scanRequests) < MaxInFlight
            /\ scanStatus' = STATUS_SENDING
            /\ scanRequests' = Append(scanRequests, scanFile[1])
            /\ UNCHANGED scanResult
    /\ UNCHANGED <<scanFile, contribVars, appVars, estVars, fnVars>>

\* mutant: a failed call is sent again
AnalyzeSettle_Retries ==
    /\ \E i \in 1..Len(scanRequests) : \E resp \in BackendResponses :
        LET out == analyzeSpoolImage(scanRequests[i], resp)
        IN  /\ lastEvent' = [kind |-> "analyzeResponse", response |-> resp]
            /\ IF out.resolved
               THEN /\ scanRequests' = RemoveAt(scanRequests, i)
                    /\ scanResult' = <<out.data>>
                    /\ scanStatus' = STATUS_OK
               ELSE /\ scanRequests' =
                          Append(RemoveAt(scanRequests, i), scanRequests[i])
                    /\ scanStatus' = MessageOr(out.err, STATUS_ERROR_CONTACTING)
                    /\ scanResult' = Null
    /\ UNCHANGED <<scanFile, contribVars, appVars, estVars, fnVars>>

\* handleAnalyzeClick from its await on (lines 277-283): any request that is
\* under way is answered, and the handler that sent it runs to its end
AnalyzeSettle ==
    /\ \E i \in 1..Len(scanRequests) : \E resp \in BackendResponses :
        LET out == analyzeSpoolImage(scanRequests[i], resp)
        IN  /\ lastEvent' = [kind |-> "analyzeResponse", response |-> resp]
            /\ scanRequests' = RemoveAt(scanRequests, i)
            /\ IF out.resolved
               THEN /\ scanResult' = <<out.data>>
                    /\ scanStatus' = STATUS_OK
               ELSE /\ scanStatus' = MessageOr(out.err, STATUS_ERROR_CONTACTING)
                    /\ scanResult' = Null
    /\ UNCHANGED <<scanFile, contribVars, appVars, estVars, fnVars>>

\* onChange of the brand input of the contribution form
SetContribBrand ==
    /\ \E text \in ContribBrandTexts : contribBrand' = text
    /\ lastEvent' = [kind |-> "input"]
    /\ UNCHANGED <<contribType, contribImageFile, contribStatus, contribResult,
                   contribRequests, scanVars, appVars, estVars, fnVars>>

\* onChange of the type input of the contribution form
SetContribType ==
    /\ \E text \in ContribTypeTexts : contribType' = text
    /\ lastEvent' = [kind |-> "input"]
    /\ UNCHANGED <<contribBrand, contribImageFile, contribStatus, contribResult,
                   contribRequests, scanVars, appVars, estVars, fnVars>>

\* handleContribImageChange (lines 286-299)
handleContribImageChange ==
    /\ \E file \in {Null} \cup {<<f>> : f \in ContribImages} :
        contribImageFile' = file
    /\ contribResult' = Null
    /\ contribStatus' = <<>>
    /\ lastEvent' = [kind |-> "input"]
    /\ UNCHANGED <<contribBrand, contribType, contribRequests, scanVars,
                   appVars, estVars, fnVars>>

\* mutant: the required fields are tested without trim()
handleSubmitContribution_NoTrim ==
    /\ lastEvent' = [kind |-> "saveClick"]
    /\ IF contribBrand = <<>> \/ contribType = <<>> \/ contribImageFile = Null
       THEN /\ contribStatus' = STATUS_REQUIRED
            /\ UNCHANGED contribRequests
       ELSE /\ Len(contribRequests) < MaxInFlight
            /\ contribStatus' = STATUS_SUBMITTING
            /\ contribRequests' = Append(contribRequests, ContribPayload)
    /\ UNCHANGED <<contribBrand, contribType, contribImageFile, contribResult,
                   scanVars, appVars, estVars, fnVars>>

\* handleSubmitContribution up to its await (lines 301-324): the button is
\* never disabled
handleSubmitContribution ==
    /\ lastEvent' = [kind |-> "saveClick"]
    /\ IF \/ Trim(contribBrand) = <<>>
          \/ Trim(contribType) = <<>>
          \/ contribImageFile = Null
       THEN /\ contribStatus' = STATUS_REQUIRED
            /\ UNCHANGED contribRequests
       ELSE /\ Len(contribRequests) < MaxInFlight
            /\ contribStatus' = STATUS_SUBMITTING
            /\ contribRequests' = Append(contribRequests, ContribPayload)
    /\ UNCHANGED <<contribBrand, contribType, contribImageFile, contribResult,
                   scanVars, appVars, estVars, fnVars>>

\* handleSubmitContribution from its await on (lines 324-329)
ContribSettle ==
    /\ \E i \in 1..Len(contribRequests) : \E resp \in BackendResponses :
        LET out == submitSpoolContribution(contribRequests[i], resp)
        IN  /\ lastEvent' = [kind |-> "contribResponse", response |-> resp]
            /\ contribRequests' = RemoveAt(contribRequests, i)
            /\ IF out.resolved
               THEN /\ contribResult' = <<out.data>>
                    /\ contribStatus' = STATUS_SAVED
               ELSE /\ contribStatus' = MessageOr(out.err, STATUS_ERROR_SUBMITTING)
                    /\ UNCHANGED contribResult
    /\ UNCHANGED <<contribBrand, contribType, contribImageFile, scanVars,
                   appVars, estVars, fnVars>>

NextBackend ==
    \/ handleScanFileChange
    \/ handleAnalyzeClick
    \/ AnalyzeSettle
    \/ SetContribBrand
    \/ SetContribType
    \/ handleContribImageChange
    \/ handleSubmitContribution
    \/ ContribSettle

SpecBackend == Init /\ [][NextBackend]_vars

(***************************************************************************)
(* Properties of the backend calls (checked under SpecBackend)             *)
(***************************************************************************)
\* C15: a scan or contribution action is in flight at most once at a time:
\* whatever the clicks, there is never more than one analyzeSpoolImage
\* request and never more than one submitSpoolContribution request awaiting
\* its response.
C15_AtMostOneInFlight ==
    /\ Len(scanRequests) <= 1
    /\ Len(contribRequests) <= 1

\* C15 as the code has it: every click with valid input sends exactly one
\* request carrying the state of that moment, nothing but a click sends one,
\* and nothing holds a click back while earlier requests await their
\* response, so several requests of a kind are under way at once.
C15_OneRequestPerClick ==
    [][/\ (scanRequests' # scanRequests /\ Len(scanRequests') >= Len(scanRequests))
            => /\ lastEvent'.kind = "analyzeClick"
               /\ scanFile # Null
               /\ scanRequests' = Append(scanRequests, scanFile[1])
               /\ contribRequests' = contribRequests
       /\ (contribRequests' # contribRequests
              /\ Len(contribRequests') >= Len(contribRequests))
            => /\ lastEvent'.kind = "saveClick"
               /\ contribRequests' = Append(contribRequests, ContribPayload)
               /\ scanRequests' = scanRequests
       /\ (lastEvent'.kind = "analyzeClick" /\ scanFile # Null)
            => Len(scanRequests') = Len(scanRequests) + 1]_vars

\* two uploads of the same file and two contributions await their response
C15_Witness ==
    /\ Len(scanRequests) >= 2
    /\ scanRequests[1] = scanRequests[2]
    /\ Len(contribRequests) >= 2

\* the response the last step handled was a failure of the named call
FailedResponse(call) ==
    lastEvent.kind = call /\ lastEvent.response.kind # "ok"

\* the text a failed response must leave as the status
FailureText(resp) ==
    IF resp.kind = "status"
    THEN BACKEND_ERROR_PREFIX \o NumToString(resp.status) \o <<" ">>
         \o resp.statusText
    ELSE resp.message

\* C16: the step that handles a non-2xx response or a rejected fetch sets
\* the status to the error text ("Backend error: <status> <statusText>" for
\* a non-2xx response), shows no result of the failed call (scanResult is
\* null after a failed analyze, contribResult is left as it was) and ends
\* that request without sending another one.
C16_FailureSurfacesStatusNoRetry ==
    [][/\ FailedResponse("analyzeResponse")' =>
            /\ scanStatus' = FailureText(lastEvent'.response)
            /\ scanResult' = Null
            /\ Len(scanRequests') = Len(scanRequests) - 1
            /\ contribRequests' = contribRequests
       /\ FailedResponse("contribResponse")' =>
            /\ contribStatus' = FailureText(lastEvent'.response)
            /\ contribResult' = contribResult
            /\ Len(contribRequests') = Len(contribRequests) - 1
            /\ scanRequests' = scanRequests]_vars

\* a 500 answered the only analyze request
C16_Witness ==
    /\ FailedResponse("analyzeResponse")
    /\ lastEvent.response.kind = "status"
    /\ scanStatus = <<"B", "a", "c", "k", "e", "n", "d", " ", "e", "r", "r", "o", "r", ":", " ", "5", "0", "0", " ", "I", "n", "t", "e", "r", "n", "a", "l", " ", "S", "e", "r", "v", "e", "r", " ", "E", "r", "r", "o", "r">>
    /\ scanResult = Null
    /\ scanRequests = <<>>
    /\ scanFile # Null

\* C19: a displayed scan result is the backend's analysis of the currently
\* selected scan file, and the status "ok" goes with a displayed result.
C19_ResultIsOfSelectedFile ==
    /\ scanResult # Null =>
          (scanFile # Null /\ scanResult = <<AnalysisOf(scanFile[1])>>)
    /\ scanStatus = STATUS_OK => scanResult # Null

\* the input of a Save click lacks a required field
InvalidContribution ==
    \/ Trim(contribBrand) = <<>>
    \/ Trim(contribType) = <<>>
    \/ contribImageFile = Null

\* C20: a click on Analyze with no file selected sets the status to "No file
\* selected.", clears scanResult and sends nothing; a click on Save with an
\* empty (after trim) brand or type or with no image sets the status to
\* "Brand, type, and image are required.", sends nothing and leaves
\* contribResult unchanged.
C20_NoRequestOnInvalidInput ==
    [][/\ (lastEvent'.kind = "analyzeClick" /\ scanFile = Null) =>
            /\ scanStatus' = <<"N", "o", " ", "f", "i", "l", "e", " ", "s", "e", "l", "e", "c", "t", "e", "d", ".">>
            /\ scanResult' = Null
            /\ scanRequests' = scanRequests
            /\ contribRequests' = contribRequests
       /\ (lastEvent'.kind = "saveClick" /\ InvalidContribution) =>
            /\ contribStatus' = <<"B", "r", "a", "n", "d", ",", " ", "t", "y", "p", "e", ",", " ", "a", "n", "d", " ", "i", "m", "a", "g", "e", " ", "a", "r", "e", " ", "r", "e", "q", "u", "i", "r", "e", "d", ".">>
            /\ contribResult' = contribResult
            /\ contribRequests' = contribRequests
            /\ scanRequests' = scanRequests]_vars

\* Save was clicked with a brand of one space after an earlier contribution
\* was saved: the status asks for the fields, the saved result stays and
\* nothing is under way
C20_Witness ==
    /\ lastEvent.kind = "saveClick"
    /\ contribBrand = <<" ">>
    /\ contribType # <<>>
    /\ contribImageFile # Null
    /\ contribStatus = STATUS_REQUIRED
    /\ contribResult # Null
    /\ contribRequests = <<>>
    /\ scanStatus = STATUS_NO_FILE
    /\ scanRequests = <<>>

====
